---------------------------- MODULE Spec2Model ----------------------------
(***************************************************************************)
(* Crazy Eights (human against computer), src/src/App.tsx.                 *)
(*                                                                         *)
(* The React component keeps one GameState object; every handler replaces  *)
(* it through setState.  The computer's move is a setTimeout callback      *)
(* installed by an effect and cleared by the effect's cleanup.             *)
(*                                                                         *)
(* Arrays are sequences (index 1 is the array's index 0), null is the      *)
(* string "null".  The random source of shuffle is an explicit stream of   *)
(* the values Math.floor(Math.random() * (i + 1)).                         *)
(***************************************************************************)
EXTENDS Integers, Sequences, FiniteSets, TLC

VARIABLES
    state,      \* the GameState held by useState
    timer,      \* << >>, or <<s>>: a pending setTimeout whose closure holds render state s
    rng,        \* the random source: the stream in use and the position of its next pick
    lastOp,     \* history: the handler that ran last and its arguments
    aiMoves     \* history: callbacks run since the player, a start or a reset last changed the state

vars == <<state, timer, rng, lastOp, aiMoves>>

---------------------------------------------------------------------------
(* types.ts and the constants of App.tsx *)

SUITS == <<"hearts", "diamonds", "clubs", "spades">>

RANKS == <<"A", "2", "3", "4", "5", "6", "7", "8", "9", "10", "J", "Q", "K">>

EIGHT == "8"

Difficulty == {"easy", "normal", "hard"}

HandSize == 8

Card(rank, suit) == [id |-> rank \o "-" \o suit, suit |-> suit, rank |-> rank]

NoCard == [id |-> "null", suit |-> "null", rank |-> "null"]

createDeck ==
    [i \in 1..(Len(SUITS) * Len(RANKS)) |->
        Card(RANKS[((i - 1) % Len(RANKS)) + 1], SUITS[((i - 1) \div Len(RANKS)) + 1])]

FullDeck == {createDeck[i] : i \in DOMAIN createDeck}

Range(seq) == {seq[i] : i \in DOMAIN seq}

Last(seq) == seq[Len(seq)]

Front(seq) == SubSeq(seq, 1, Len(seq) - 1)

Other(side) == IF side = "player" THEN "ai" ELSE "player"

---------------------------------------------------------------------------
(* Bounds of the exploration *)

\* the random streams explored: Streams[1..NumStreams]
NumStreams == 3

\* the history counter aiMoves counts up to AiMovesCap
AiMovesCap == 3

\* the orderings of the deal explored: the 8s lie among the last TailSlots
\* cards of the shuffled deck or at one of HeadSlots
TailSlots == 5

\* A stream replays Math.random(): Streams[k].shuffle[i] is
\* Math.floor(Math.random() * (i + 1)) at iteration i of shuffle; the later
\* calls (the easy policy) return the fractions <<n, d>> = n/d of picks, cyclically.
Streams == <<
  [shuffle |-> <<0, 0, 0, 0, 5, 0, 7, 5, 8, 1, 1, 11, 6, 13, 13, 3, 12,
                 14, 19, 17, 13, 8, 18, 5, 4, 19, 8, 21, 9, 28, 1, 3, 15, 11,
                 23, 32, 7, 11, 17, 7, 33, 37, 26, 34, 4, 6, 27, 41, 40, 40, 20>>,
   picks |-> <<<<3, 4>>, <<1, 4>>, <<3, 4>>, <<3, 4>>>>],
  [shuffle |-> <<1, 0, 0, 0, 2, 3, 0, 4, 8, 2, 7, 5, 9, 0, 8, 11, 17,
                 1, 16, 1, 8, 15, 11, 24, 8, 15, 21, 24, 17, 20, 30, 24, 13, 24,
                 14, 4, 6, 31, 16, 3, 0, 18, 13, 42, 34, 3, 25, 11, 33, 8, 17>>,
   picks |-> <<<<1, 4>>, <<2, 4>>, <<0, 4>>, <<1, 4>>>>],
  [shuffle |-> <<1, 2, 3, 0, 1, 4, 3, 6, 3, 5, 4, 0, 4, 3, 8, 0, 5,
                 3, 4, 17, 14, 17, 17, 15, 11, 3, 13, 10, 4, 3, 3, 24, 8, 23,
                 7, 3, 4, 0, 39, 15, 26, 13, 10, 9, 9, 40, 36, 27, 42, 7, 46>>,
   picks |-> <<<<2, 4>>, <<0, 4>>, <<0, 4>>, <<0, 4>>>>],
  [shuffle |-> <<0, 1, 1, 0, 1, 6, 2, 7, 1, 10, 5, 12, 4, 2, 10, 11, 9,
                 4, 10, 4, 9, 14, 2, 22, 11, 8, 0, 3, 0, 24, 8, 2, 1, 17,
                 16, 8, 14, 8, 39, 15, 19, 20, 22, 21, 25, 5, 32, 36, 28, 12, 20>>,
   picks |-> <<<<2, 4>>, <<2, 4>>, <<1, 4>>, <<2, 4>>>>]
>>

---------------------------------------------------------------------------
(* Deck factory *)

Swap(seq, a, b) == [seq EXCEPT ![a] = seq[b], ![b] = seq[a]]

RECURSIVE shuffleLoop(_, _, _)
shuffleLoop(newDeck, i, rnd) ==
    IF i > 0
    THEN LET j == rnd[i] IN shuffleLoop(Swap(newDeck, i + 1, j + 1), i - 1, rnd)
    ELSE newDeck

shuffle(deck, rnd) == shuffleLoop(deck, Len(deck) - 1, rnd)

Shuffled == [k \in 1..Len(Streams) |-> shuffle(createDeck, Streams[k].shuffle)]

---------------------------------------------------------------------------
(* Rule checks, one per place of the code that computes playability *)

\* variant: a drawn card of the top card's rank does not count as playable
canPlay_noRank(drawnCard, topCard, currentSuit) ==
    \/ drawnCard.rank = EIGHT
    \/ drawnCard.suit = currentSuit

canPlay(drawnCard, topCard, currentSuit) ==
    \/ drawnCard.rank = EIGHT
    \/ drawnCard.rank = topCard.rank
    \/ drawnCard.suit = currentSuit

\* variant: the computer's filter compares with the top card's suit
aiPlayable_topSuit(c, topCard, currentSuit) ==
    \/ c.rank = EIGHT
    \/ c.rank = topCard.rank
    \/ c.suit = topCard.suit

aiPlayable(c, topCard, currentSuit) ==
    \/ c.rank = EIGHT
    \/ c.rank = topCard.rank
    \/ c.suit = currentSuit

topDiscard(st) == IF Len(st.discardPile) > 0 THEN Last(st.discardPile) ELSE NoCard

\* variant: the status is not looked at
isPlayerTurn_anyStatus(st) == st.turn = "player"

isPlayerTurn(st) == st.turn = "player" /\ st.status = "playing"

\* variant: the early return on !isPlayerTurn is missing
canPlayerDraw_noTurnCheck(st) ==
    ~(\E i \in DOMAIN st.playerHand :
        LET c == st.playerHand[i] IN
          \/ c.rank = EIGHT
          \/ c.rank = topDiscard(st).rank
          \/ c.suit = st.currentSuit)

canPlayerDraw(st) ==
    IF ~isPlayerTurn(st) THEN FALSE
    ELSE ~(\E i \in DOMAIN st.playerHand :
             LET c == st.playerHand[i] IN
               \/ c.rank = EIGHT
               \/ c.rank = topDiscard(st).rank
               \/ c.suit = st.currentSuit)

\* variant: every card of the hand is clickable on the player's turn
isPlayable_anyCard(st, card) == isPlayerTurn(st)

isPlayable(st, card) ==
    isPlayerTurn(st) /\ ( \/ card.rank = EIGHT
                          \/ card.rank = topDiscard(st).rank
                          \/ card.suit = st.currentSuit )

---------------------------------------------------------------------------
(* Game actions as state updaters: the functions passed to setState *)

InitialState ==
    [deck |-> << >>, playerHand |-> << >>, aiHand |-> << >>, discardPile |-> << >>,
     currentSuit |-> "null", turn |-> "player", status |-> "waiting",
     winner |-> "null", difficulty |-> "normal"]

\* variant: the winner is not cleared
goToHome_keepsWinner(prev) == [prev EXCEPT !.status = "waiting"]

goToHome(prev) == [prev EXCEPT !.status = "waiting", !.winner = "null"]

setDifficulty(prev, d) == [prev EXCEPT !.difficulty = d]

\* variant: the 8 taken from the tail is not put back (no unshift)
RECURSIVE initialDiscardLoop_dropsEight(_, _)
initialDiscardLoop_dropsEight(fullDeck, initialDiscard) ==
    IF initialDiscard.rank = EIGHT
    THEN initialDiscardLoop_dropsEight(Front(fullDeck), Last(fullDeck))
    ELSE [deck |-> fullDeck, initialDiscard |-> initialDiscard]

\* while (initialDiscard.rank === Rank.EIGHT) { unshift; pop }
RECURSIVE initialDiscardLoop(_, _)
initialDiscardLoop(fullDeck, initialDiscard) ==
    IF initialDiscard.rank = EIGHT
    THEN LET unshifted == <<initialDiscard>> \o fullDeck
         IN initialDiscardLoop(Front(unshifted), Last(unshifted))
    ELSE [deck |-> fullDeck, initialDiscard |-> initialDiscard]

\* variant: the deal leaves currentSuit unset
initGame_noSuit(difficulty, fullDeck0) ==
    LET playerHand == SubSeq(fullDeck0, 1, HandSize)
        afterPlayer == SubSeq(fullDeck0, HandSize + 1, Len(fullDeck0))
        aiHand == SubSeq(afterPlayer, 1, HandSize)
        afterAi == SubSeq(afterPlayer, HandSize + 1, Len(afterPlayer))
        r == initialDiscardLoop(Front(afterAi), Last(afterAi))
    IN [deck |-> r.deck, playerHand |-> playerHand, aiHand |-> aiHand,
        discardPile |-> <<r.initialDiscard>>, currentSuit |-> "null",
        turn |-> "player", status |-> "playing", winner |-> "null",
        difficulty |-> difficulty]

\* variant: the popped card becomes the discard whatever its rank
initGame_noReplace(difficulty, fullDeck0) ==
    LET playerHand == SubSeq(fullDeck0, 1, HandSize)
        afterPlayer == SubSeq(fullDeck0, HandSize + 1, Len(fullDeck0))
        aiHand == SubSeq(afterPlayer, 1, HandSize)
        afterAi == SubSeq(afterPlayer, HandSize + 1, Len(afterPlayer))
    IN [deck |-> Front(afterAi), playerHand |-> playerHand, aiHand |-> aiHand,
        discardPile |-> <<Last(afterAi)>>, currentSuit |-> Last(afterAi).suit,
        turn |-> "player", status |-> "playing", winner |-> "null",
        difficulty |-> difficulty]

initGame(difficulty, fullDeck0) ==
    LET playerHand == SubSeq(fullDeck0, 1, HandSize)
        afterPlayer == SubSeq(fullDeck0, HandSize + 1, Len(fullDeck0))
        aiHand == SubSeq(afterPlayer, 1, HandSize)
        afterAi == SubSeq(afterPlayer, HandSize + 1, Len(afterPlayer))
        r == initialDiscardLoop(Front(afterAi), Last(afterAi))
    IN [deck |-> r.deck, playerHand |-> playerHand, aiHand |-> aiHand,
        discardPile |-> <<r.initialDiscard>>, currentSuit |-> r.initialDiscard.suit,
        turn |-> "player", status |-> "playing", winner |-> "null",
        difficulty |-> difficulty]

\* variant: the drawn card stays in the deck (slice instead of pop)
drawCard_keepsDeck(prev, target) ==
    IF Len(prev.deck) = 0
    THEN [prev EXCEPT !.turn = IF prev.turn = "player" THEN "ai" ELSE "player"]
    ELSE LET drawnCard == Last(prev.deck)
             isPlayer == target = "player"
             handKey == IF isPlayer THEN "playerHand" ELSE "aiHand"
             topCard == Last(prev.discardPile)
             newTurn == IF ~canPlay(drawnCard, topCard, prev.currentSuit)
                        THEN (IF isPlayer THEN "ai" ELSE "player")
                        ELSE prev.turn
         IN [prev EXCEPT ![handKey] = Append(prev[handKey], drawnCard),
                         !.turn = newTurn]

\* variant: a draw from the empty deck returns prev
drawCard_emptyKeepsTurn(prev, target) ==
    IF Len(prev.deck) = 0
    THEN prev
    ELSE LET newDeck == Front(prev.deck)
             drawnCard == Last(prev.deck)
             isPlayer == target = "player"
             handKey == IF isPlayer THEN "playerHand" ELSE "aiHand"
             topCard == Last(prev.discardPile)
             newTurn == IF ~canPlay(drawnCard, topCard, prev.currentSuit)
                        THEN (IF isPlayer THEN "ai" ELSE "player")
                        ELSE prev.turn
         IN [prev EXCEPT !.deck = newDeck,
                         ![handKey] = Append(prev[handKey], drawnCard),
                         !.turn = newTurn]

drawCard(prev, target) ==
    IF Len(prev.deck) = 0
    THEN [prev EXCEPT !.turn = IF prev.turn = "player" THEN "ai" ELSE "player"]
    ELSE LET newDeck == Front(prev.deck)
             drawnCard == Last(prev.deck)
             isPlayer == target = "player"
             handKey == IF isPlayer THEN "playerHand" ELSE "aiHand"
             topCard == Last(prev.discardPile)
             newTurn == IF ~canPlay(drawnCard, topCard, prev.currentSuit)
                        THEN (IF isPlayer THEN "ai" ELSE "player")
                        ELSE prev.turn
         IN [prev EXCEPT !.deck = newDeck,
                         ![handKey] = Append(prev[handKey], drawnCard),
                         !.turn = newTurn]

suitCounts(hand) ==
    [s \in Range(SUITS) |-> Cardinality({i \in DOMAIN hand : hand[i].suit = s})]

\* Object.entries(counts).reduce((a, b) => a[1] > b[1] ? a : b)[0]
RECURSIVE reduceEntries(_, _, _)
reduceEntries(counts, a, k) ==
    IF k > Len(SUITS) THEN a
    ELSE LET b == SUITS[k]
         IN reduceEntries(counts, IF counts[a] > counts[b] THEN a ELSE b, k + 1)

\* variant: the reduce keeps the earlier entry on a tie (a[1] >= b[1])
aiChooseSuit_keepFirst(newHand) ==
    LET counts == suitCounts(newHand)
        pick(a, b) == IF counts[a] >= counts[b] THEN a ELSE b
    IN pick(pick(pick(SUITS[1], SUITS[2]), SUITS[3]), SUITS[4])

aiChooseSuit(newHand) == reduceEntries(suitCounts(newHand), SUITS[1], 2)

\* variant: an 8 asks for a suit whoever played it
playCard_anyoneChooses(prev, card, target) ==
    LET isPlayer == target = "player"
        handKey == IF isPlayer THEN "playerHand" ELSE "aiHand"
        newHand == SelectSeq(prev[handKey], LAMBDA c : c.id # card.id)
        newDiscardPile == Append(prev.discardPile, card)
        nextTurn == IF isPlayer THEN "ai" ELSE "player"
        nextStatus == IF card.rank = EIGHT THEN "choosing_suit" ELSE "playing"
        nextSuit == IF card.rank = EIGHT /\ ~isPlayer THEN aiChooseSuit(newHand) ELSE card.suit
    IN IF Len(newHand) = 0
       THEN [prev EXCEPT ![handKey] = newHand,
                         !.discardPile = newDiscardPile,
                         !.status = "game_over",
                         !.winner = target]
       ELSE [prev EXCEPT ![handKey] = newHand,
                         !.discardPile = newDiscardPile,
                         !.currentSuit = nextSuit,
                         !.status = nextStatus,
                         !.turn = nextTurn]

\* variant: the current suit is not updated by a play
playCard_keepsSuit(prev, card, target) ==
    LET isPlayer == target = "player"
        handKey == IF isPlayer THEN "playerHand" ELSE "aiHand"
        newHand == SelectSeq(prev[handKey], LAMBDA c : c.id # card.id)
        newDiscardPile == Append(prev.discardPile, card)
        nextTurn == IF isPlayer THEN "ai" ELSE "player"
        nextStatus == IF card.rank = EIGHT /\ isPlayer THEN "choosing_suit" ELSE "playing"
        nextSuit == IF card.rank = EIGHT /\ ~isPlayer THEN aiChooseSuit(newHand)
                    ELSE prev.currentSuit
    IN IF Len(newHand) = 0
       THEN [prev EXCEPT ![handKey] = newHand,
                         !.discardPile = newDiscardPile,
                         !.status = "game_over",
                         !.winner = target]
       ELSE [prev EXCEPT ![handKey] = newHand,
                         !.discardPile = newDiscardPile,
                         !.currentSuit = nextSuit,
                         !.status = nextStatus,
                         !.turn = nextTurn]

\* variant: the rank-8 handling runs before the empty-hand check
playCard_eightFirst(prev, card, target) ==
    LET isPlayer == target = "player"
        handKey == IF isPlayer THEN "playerHand" ELSE "aiHand"
        newHand == SelectSeq(prev[handKey], LAMBDA c : c.id # card.id)
        newDiscardPile == Append(prev.discardPile, card)
        nextTurn == IF isPlayer THEN "ai" ELSE "player"
        nextStatus == IF card.rank = EIGHT /\ isPlayer THEN "choosing_suit" ELSE "playing"
        nextSuit == IF card.rank = EIGHT /\ ~isPlayer THEN aiChooseSuit(newHand) ELSE card.suit
    IN IF Len(newHand) = 0 /\ card.rank # EIGHT
       THEN [prev EXCEPT ![handKey] = newHand,
                         !.discardPile = newDiscardPile,
                         !.status = "game_over",
                         !.winner = target]
       ELSE [prev EXCEPT ![handKey] = newHand,
                         !.discardPile = newDiscardPile,
                         !.currentSuit = nextSuit,
                         !.status = nextStatus,
                         !.turn = nextTurn]

playCard(prev, card, target) ==
    LET isPlayer == target = "player"
        handKey == IF isPlayer THEN "playerHand" ELSE "aiHand"
        newHand == SelectSeq(prev[handKey], LAMBDA c : c.id # card.id)
        newDiscardPile == Append(prev.discardPile, card)
        nextTurn == IF isPlayer THEN "ai" ELSE "player"
        nextStatus == IF card.rank = EIGHT /\ isPlayer THEN "choosing_suit" ELSE "playing"
        nextSuit == IF card.rank = EIGHT /\ ~isPlayer THEN aiChooseSuit(newHand) ELSE card.suit
    IN IF Len(newHand) = 0
       THEN [prev EXCEPT ![handKey] = newHand,
                         !.discardPile = newDiscardPile,
                         !.status = "game_over",
                         !.winner = target]
       ELSE [prev EXCEPT ![handKey] = newHand,
                         !.discardPile = newDiscardPile,
                         !.currentSuit = nextSuit,
                         !.status = nextStatus,
                         !.turn = nextTurn]

\* variant: the chosen suit is not stored
selectSuit_keepsSuit(prev, suit) ==
    [prev EXCEPT !.status = "playing", !.turn = "ai"]

selectSuit(prev, suit) ==
    [prev EXCEPT !.currentSuit = suit, !.status = "playing", !.turn = "ai"]

---------------------------------------------------------------------------
(* Computer opponent: the body of the setTimeout callback *)

playableCards(s) ==
    SelectSeq(s.aiHand, LAMBDA c : aiPlayable(c, Last(s.discardPile), s.currentSuit))

\* nonEights.reduce((prev, curr) => counts[curr.suit] > counts[prev.suit] ? curr : prev)
\* variant: the reduce moves to the later card on a tie (>=)
RECURSIVE reduceCards_ge(_, _, _, _)
reduceCards_ge(counts, cards, prev, k) ==
    IF k > Len(cards) THEN prev
    ELSE LET curr == cards[k]
         IN reduceCards_ge(counts, cards,
                           IF counts[curr.suit] >= counts[prev.suit] THEN curr ELSE prev, k + 1)

RECURSIVE reduceCards(_, _, _, _)
reduceCards(counts, cards, prev, k) ==
    IF k > Len(cards) THEN prev
    ELSE LET curr == cards[k]
         IN reduceCards(counts, cards,
                        IF counts[curr.suit] > counts[prev.suit] THEN curr ELSE prev, k + 1)

\* playableCards[Math.floor(Math.random() * playableCards.length)], Math.random() = r[1]/r[2]
easyChoice(cards, r) == cards[((r[1] * Len(cards)) \div r[2]) + 1]

normalChoice(cards) ==
    LET nonEights == SelectSeq(cards, LAMBDA c : c.rank # EIGHT)
    IN IF Len(nonEights) > 0 THEN nonEights[1] ELSE cards[1]

hardChoice(s, cards) ==
    LET nonEights == SelectSeq(cards, LAMBDA c : c.rank # EIGHT)
    IN IF Len(nonEights) > 0
       THEN reduceCards(suitCounts(s.aiHand), nonEights, nonEights[1], 2)
       ELSE cards[1]

\* variant: the easy policy picks among all cards of the hand
cardToPlay_easyAnyCard(s, r) ==
    IF s.difficulty = "easy" THEN easyChoice(s.aiHand, r)
    ELSE IF s.difficulty = "normal" THEN normalChoice(playableCards(s))
    ELSE hardChoice(s, playableCards(s))

cardToPlay(s, r) ==
    IF s.difficulty = "easy" THEN easyChoice(playableCards(s), r)
    ELSE IF s.difficulty = "normal" THEN normalChoice(playableCards(s))
    ELSE hardChoice(s, playableCards(s))

---------------------------------------------------------------------------
(* The effect that schedules the computer's move *)

\* variant: state.aiHand is missing from the dependency array
Deps_noAiHand(st) == <<st.status, st.turn, st.discardPile, st.currentSuit, st.difficulty>>

Deps(st) == <<st.status, st.turn, st.aiHand, st.discardPile, st.currentSuit, st.difficulty>>

\* variant: the effect returns no cleanup, a timer stays until it fires
useEffect_noCleanup(old, new, tm) ==
    IF Deps(old) = Deps(new) THEN tm
    ELSE IF new.status = "playing" /\ new.turn = "ai" THEN <<new>> ELSE tm

\* React re-runs the effect when a dependency changed: the cleanup clears the
\* old timer, the body sets a new one when it is the computer's turn.
useEffect(old, new, tm) ==
    IF Deps(old) = Deps(new) THEN tm
    ELSE IF new.status = "playing" /\ new.turn = "ai" THEN <<new>> ELSE << >>

---------------------------------------------------------------------------
(* Handlers *)

Op(op, target, card, suit, rnd) ==
    [op |-> op, target |-> target, card |-> card, suit |-> suit, rnd |-> rnd]

\* the card a drawCard takes, NoCard when the deck is empty (history only)
drawn(st) == IF Len(st.deck) = 0 THEN NoCard ELSE Last(st.deck)

\* the count of callback runs stops at AiMovesCap
countMoves(op, n) ==
    IF op.target = "ai" THEN (IF n < AiMovesCap THEN n + 1 ELSE n)
    ELSE IF op.op \in {"ignoredClick", "ignoredDraw"} THEN n
    ELSE 0

Commit(new, tm, op) ==
    /\ state' = new
    /\ timer' = useEffect(state, new, tm)
    /\ lastOp' = op
    /\ aiMoves' = countMoves(op, aiMoves)

nextRandom == Streams[rng.stream].picks[rng.pos]

advance(g) == [g EXCEPT !.pos = (g.pos % Len(Streams[g.stream].picks)) + 1]

Init ==
    /\ state = InitialState
    /\ timer = << >>
    /\ rng = [stream |-> 0, pos |-> 0]
    /\ lastOp = Op("mount", "null", NoCard, "null", 0)
    /\ aiMoves = 0

\* header button and the game_over modal
GoToHome ==
    /\ Commit(goToHome(state), timer, Op("goToHome", "null", NoCard, "null", 0))
    /\ UNCHANGED rng

\* header button, waiting modal, game_over modal: initGame(state.difficulty)
StartGame ==
    \E k \in 1..NumStreams :
        /\ Commit(initGame(state.difficulty, Shuffled[k]), timer,
                  Op("initGame", "null", NoCard, "null", k))
        /\ rng' = [stream |-> k, pos |-> 1]

\* difficulty buttons of the waiting modal
SelectDifficulty ==
    /\ state.status = "waiting"
    /\ \E d \in Difficulty :
        Commit(setDifficulty(state, d), timer, Op("setDifficulty", d, NoCard, "null", 0))
    /\ UNCHANGED rng

\* a click on a card of the player's hand: onClick={isPlayable ? onClick : undefined}
ClickCard ==
    /\ \E i \in DOMAIN state.playerHand :
        LET card == state.playerHand[i] IN
        IF isPlayable(state, card)
        THEN Commit(playCard(state, card, "player"), timer,
                    Op("playCard", "player", card, "null", 0))
        ELSE Commit(state, timer, Op("ignoredClick", "player", card, "null", 0))
    /\ UNCHANGED rng

\* a click on the draw pile: canPlayerDraw && drawCard('player')
ClickDrawPile ==
    /\ IF canPlayerDraw(state)
       THEN Commit(drawCard(state, "player"), timer,
                   Op("drawCard", "player", drawn(state), "null", 0))
       ELSE Commit(state, timer, Op("ignoredDraw", "player", NoCard, "null", 0))
    /\ UNCHANGED rng

\* suit buttons of the choosing_suit modal
ChooseSuit ==
    /\ state.status = "choosing_suit"
    /\ \E k \in DOMAIN SUITS :
        Commit(selectSuit(state, SUITS[k]), timer,
               Op("selectSuit", "player", NoCard, SUITS[k], 0))
    /\ UNCHANGED rng

\* the setTimeout callback fires; it reads the render state it closed over
AiPlays ==
    /\ timer # << >>
    /\ Len(playableCards(timer[1])) > 0
    /\ LET card == cardToPlay(timer[1], nextRandom) IN
        Commit(playCard(state, card, "ai"), << >>, Op("playCard", "ai", card, "null", 0))
    /\ rng' = IF timer[1].difficulty = "easy" THEN advance(rng) ELSE rng

AiDraws ==
    /\ timer # << >>
    /\ Len(playableCards(timer[1])) = 0
    /\ Commit(drawCard(state, "ai"), << >>, Op("drawCard", "ai", drawn(state), "null", 0))
    /\ UNCHANGED rng

Next ==
    \/ GoToHome
    \/ StartGame
    \/ SelectDifficulty
    \/ ClickCard
    \/ ClickDrawPile
    \/ ChooseSuit
    \/ AiPlays
    \/ AiDraws

Spec == Init /\ [][Next]_vars

\* a timer that stays set fires: the callback runs 1500 ms after setTimeout
FairSpec == Spec /\ WF_vars(AiPlays) /\ WF_vars(AiDraws)

---------------------------------------------------------------------------
(* The deal on its own: initGame applied to orderings of the deck that
   shuffle can return, chosen by where the four 8s lie *)

Eights == SelectSeq(createDeck, LAMBDA c : c.rank = EIGHT)

NonEights == SelectSeq(createDeck, LAMBDA c : c.rank # EIGHT)

\* a position of the player's hand, of the computer's hand and of the rest
HeadSlots == {1, HandSize + 1, 2 * HandSize + 2}

Slots == HeadSlots \cup ((Len(createDeck) - TailSlots + 1)..Len(createDeck))

\* p[k]: the position of the k-th 8
Placements == {p \in [DOMAIN Eights -> Slots] : \A i, j \in DOMAIN Eights : p[i] = p[j] => i = j}

\* the deck with the 8s at the positions p and the other cards in createDeck's order
Ordering(p) ==
    [i \in DOMAIN createDeck |->
        IF \E k \in DOMAIN p : p[k] = i
        THEN Eights[CHOOSE k \in DOMAIN p : p[k] = i]
        ELSE NonEights[i - Cardinality({k \in DOMAIN p : p[k] < i})]]

\* const fullDeck = shuffle(createDeck()): state.deck stands for fullDeck
DealInit ==
    /\ state \in {[InitialState EXCEPT !.deck = Ordering(p)] : p \in Placements}
    /\ timer = << >>
    /\ rng = [stream |-> 0, pos |-> 0]
    /\ lastOp = Op("shuffle", "null", NoCard, "null", 0)
    /\ aiMoves = 0

\* the rest of initGame
DealCards ==
    /\ lastOp.op = "shuffle"
    /\ Commit(initGame(state.difficulty, state.deck), timer,
              Op("initGame", "null", NoCard, "null", 0))
    /\ UNCHANGED rng

DealNext == DealCards

DealSpec == DealInit /\ [][DealNext]_vars

---------------------------------------------------------------------------
(* Vocabulary of the properties *)

\* the rule of the game as the specification words it
RulePlayable(card, topCard, currentSuit) ==
    card.rank = EIGHT \/ card.rank = topCard.rank \/ card.suit = currentSuit

Hand(st, side) == IF side = "player" THEN st.playerHand ELSE st.aiHand

AllCards(st) == st.deck \o st.playerHand \o st.aiHand \o st.discardPile

Frame(fields) == \A f \in fields : state'[f] = state[f]

PlayBy(side) == lastOp'.op = "playCard" /\ lastOp'.target = side

DrawBy(side) == lastOp'.op = "drawCard" /\ lastOp'.target = side

Sides == {"player", "ai"}

---------------------------------------------------------------------------
(* C1: once a game has been dealt, deck, both hands and the discard pile
   always hold 52 cards in total and together exactly the 52 cards of the
   full deck, none twice. *)
C1_CardConservation ==
    AllCards(state) # << >> =>
        /\ Len(state.deck) + Len(state.playerHand) + Len(state.aiHand)
             + Len(state.discardPile) = 52
        /\ Range(AllCards(state)) = FullDeck
        /\ \A i, j \in DOMAIN AllCards(state) :
             AllCards(state)[i].id = AllCards(state)[j].id => i = j

C1_Witness ==
    /\ lastOp.op = "playCard"
    /\ Len(state.discardPile) >= 4
    /\ Len(state.deck) < 35
    /\ Len(state.playerHand) # HandSize

(* C2: a click on a card of the player's hand that is not playable against
   the top card and the current suit (or on no card of the hand at all)
   changes no field of the game state. *)
C2_IllegalPlayRejected ==
    [][ (/\ lastOp'.target = "player"
         /\ lastOp'.op \in {"playCard", "ignoredClick"}
         /\ \/ lastOp'.card \notin Range(state.playerHand)
            \/ ~RulePlayable(lastOp'.card, topDiscard(state), state.currentSuit))
        => state' = state ]_vars

C2_Witness ==
    /\ lastOp.op = "ignoredClick"
    /\ isPlayerTurn(state)
    /\ lastOp.card \in Range(state.playerHand)
    /\ ~RulePlayable(lastOp.card, topDiscard(state), state.currentSuit)
    /\ \E i \in DOMAIN state.playerHand :
         RulePlayable(state.playerHand[i], topDiscard(state), state.currentSuit)

(* C3: when the player plays an 8 and keeps cards, the status becomes
   choosing_suit and the turn is still the player's; it becomes the
   computer's only when a suit is chosen. *)
C3_TurnHeldWhileChoosing ==
    [][ (/\ PlayBy("player")
         /\ lastOp'.card.rank = EIGHT
         /\ Len(state'.playerHand) > 0)
        => (state'.status = "choosing_suit" /\ state'.turn = "player") ]_vars

C3_Reached ==
    /\ lastOp.op = "playCard" /\ lastOp.target = "player"
    /\ lastOp.card.rank = EIGHT
    /\ state.status = "choosing_suit"

\* the suits with the highest count in a hand
MostFrequent(hand) ==
    {s \in Range(SUITS) : \A t \in Range(SUITS) : suitCounts(hand)[t] <= suitCounts(hand)[s]}

SuitIndex(s) == CHOOSE k \in DOMAIN SUITS : SUITS[k] = s

FirstMostFrequent(hand) ==
    CHOOSE s \in MostFrequent(hand) :
        \A t \in MostFrequent(hand) : SuitIndex(s) <= SuitIndex(t)

LastMostFrequent(hand) ==
    CHOOSE s \in MostFrequent(hand) :
        \A t \in MostFrequent(hand) : SuitIndex(t) <= SuitIndex(s)

AiPlayedEightAndKeepsCards ==
    PlayBy("ai") /\ lastOp'.card.rank = EIGHT /\ Len(state'.aiHand) > 0

(* C4 as stated: after the computer plays an 8 and keeps cards, the current
   suit is the most frequent suit of its remaining hand, the FIRST of hearts,
   diamonds, clubs, spades among tied suits; the turn passes to the player. *)
C4_FirstSuitOnTie ==
    [][ AiPlayedEightAndKeepsCards
        => /\ state'.currentSuit = FirstMostFrequent(state'.aiHand)
           /\ state'.turn = "player"
           /\ state'.status = "playing" ]_vars

(* C4 amended: the same, with the LAST of hearts, diamonds, clubs, spades
   among tied suits. *)
C4_LastSuitOnTie ==
    [][ AiPlayedEightAndKeepsCards
        => /\ state'.currentSuit = LastMostFrequent(state'.aiHand)
           /\ state'.turn = "player"
           /\ state'.status = "playing" ]_vars

C4_Witness ==
    /\ lastOp.op = "playCard" /\ lastOp.target = "ai"
    /\ lastOp.card.rank = EIGHT
    /\ Len(state.aiHand) > 0
    /\ Cardinality(MostFrequent(state.aiHand)) > 1
    /\ state.currentSuit = LastMostFrequent(state.aiHand)
    /\ state.turn = "player"

(* C5: a play of a side's last card ends the game at once with that side as
   winner, also when the card is an 8; turn and current suit stay as they
   were. *)
C5_WinDetection ==
    [][ \A side \in Sides :
          (PlayBy(side) /\ Hand(state, side) = <<lastOp'.card>>)
          => /\ state'.status = "game_over"
             /\ state'.winner = side
             /\ Hand(state', side) = << >>
             /\ state'.turn = state.turn
             /\ state'.currentSuit = state.currentSuit ]_vars

C5_Witness ==
    /\ lastOp.op = "playCard"
    /\ lastOp.card.rank = EIGHT
    /\ state.status = "game_over"
    /\ state.winner = lastOp.target
    /\ Hand(state, lastOp.target) = << >>

(* C6: choosing a suit s in status choosing_suit sets the current suit to s,
   the status to playing and the turn to the computer, and changes nothing
   else. *)
C6_ChooseSuit ==
    [][ (lastOp'.op = "selectSuit" /\ state.status = "choosing_suit")
        => /\ state'.currentSuit = lastOp'.suit
           /\ state'.status = "playing"
           /\ state'.turn = "ai"
           /\ Frame({"deck", "playerHand", "aiHand", "discardPile", "winner", "difficulty"})
      ]_vars

C6_Witness ==
    /\ lastOp.op = "selectSuit"
    /\ state.currentSuit = lastOp.suit
    /\ state.currentSuit # topDiscard(state).suit
    /\ state.status = "playing" /\ state.turn = "ai"

(* C7: a suit choice outside choosing_suit and a play for a side outside that
   side's turn do not happen as state changes: every selectSuit step starts
   in choosing_suit, every play of a side starts in status playing on that
   side's turn, and a card click at any other time leaves the state as it is. *)
C7_InvalidTransitionsRejected ==
    [][ /\ lastOp'.op = "selectSuit" => state.status = "choosing_suit"
        /\ \A side \in Sides :
             PlayBy(side) => (state.status = "playing" /\ state.turn = side)
        /\ (lastOp'.op = "ignoredClick" /\ ~(state.status = "playing" /\ state.turn = "player"))
             => state' = state ]_vars

C7_Witness ==
    /\ lastOp.op = "ignoredClick"
    /\ ~(state.status = "playing" /\ state.turn = "player")
    /\ RulePlayable(lastOp.card, topDiscard(state), state.currentSuit)

(* C8: a start deals the first 8 cards of the shuffled ordering to the
   player, the next 8 to the computer, one card that is not an 8 to the
   discard pile and leaves the other 35 in the deck; the current suit is the
   suit of that card, the turn the player's, the status playing, no winner. *)
C8_InitialDeal ==
    [][ lastOp'.op = "initGame" =>
        LET full == Shuffled[lastOp'.rnd] IN
        /\ state'.playerHand = SubSeq(full, 1, 8)
        /\ state'.aiHand = SubSeq(full, 9, 16)
        /\ Len(state'.discardPile) = 1
        /\ state'.discardPile[1].rank # EIGHT
        /\ Len(state'.deck) = 35
        /\ Range(state'.deck) =
             Range(SubSeq(full, 17, 52)) \ {state'.discardPile[1]}
        /\ state'.currentSuit = state'.discardPile[1].suit
        /\ state'.turn = "player"
        /\ state'.status = "playing"
        /\ state'.winner = "null" ]_vars

C8_Witness ==
    /\ lastOp.op = "initGame"
    /\ Last(Shuffled[lastOp.rnd]).rank = EIGHT
    /\ Len(state.deck) = 35
    /\ state.discardPile[1].rank # EIGHT

(* C9: a draw from a non-empty deck moves the deck's last card to the end of
   the drawing side's hand; the turn stays with that side when the card is
   playable and passes to the other side otherwise; nothing else changes. *)
C9_DrawFromDeck ==
    [][ \A side \in Sides :
          (DrawBy(side) /\ Len(state.deck) > 0)
          => LET c == Last(state.deck) IN
             /\ state'.deck = Front(state.deck)
             /\ Hand(state', side) = Append(Hand(state, side), c)
             /\ Hand(state', Other(side)) = Hand(state, Other(side))
             /\ state'.turn =
                  IF RulePlayable(c, Last(state.discardPile), state.currentSuit)
                  THEN side ELSE Other(side)
             /\ Frame({"discardPile", "currentSuit", "status", "winner", "difficulty"})
      ]_vars

C9_Witness ==
    /\ lastOp.op = "drawCard"
    /\ lastOp.card # NoCard
    /\ Last(Hand(state, lastOp.target)) = lastOp.card
    /\ state.turn = lastOp.target
    /\ lastOp.card.rank # EIGHT

(* C10: a draw from an empty deck changes no hand, not the deck and not the
   discard pile and passes the turn to the other side; an empty deck stays
   empty until a new game is dealt. *)
C10_DrawExhaustion ==
    [][ /\ \A side \in Sides :
             (DrawBy(side) /\ Len(state.deck) = 0)
             => /\ state'.turn = Other(side)
                /\ state'.turn # state.turn
                /\ Frame({"deck", "playerHand", "aiHand", "discardPile",
                          "currentSuit", "status", "winner", "difficulty"})
        /\ (Len(state.deck) = 0 /\ state.status # "waiting" /\ lastOp'.op # "initGame")
             => state'.deck = << >> ]_vars

C10_Witness ==
    /\ lastOp.op = "drawCard"
    /\ lastOp.card = NoCard
    /\ lastOp.target = "player"
    /\ state.deck = << >>
    /\ state.turn = "ai"

(* C11: a play of a card that is not an 8 and that leaves the side's hand
   non-empty removes exactly that card from the hand, makes it the last card
   of the discard pile, sets the current suit to its suit, keeps the status
   playing and passes the turn to the other side. *)
C11_PlayNonEight ==
    [][ \A side \in Sides :
          (/\ PlayBy(side)
           /\ lastOp'.card.rank # EIGHT
           /\ Len(Hand(state', side)) > 0)
          => /\ lastOp'.card \in Range(Hand(state, side))
             /\ Hand(state', side) =
                  SelectSeq(Hand(state, side), LAMBDA c : c # lastOp'.card)
             /\ Len(Hand(state', side)) = Len(Hand(state, side)) - 1
             /\ state'.discardPile = Append(state.discardPile, lastOp'.card)
             /\ state'.currentSuit = lastOp'.card.suit
             /\ state'.status = "playing"
             /\ state'.turn = Other(side)
             /\ Hand(state', Other(side)) = Hand(state, Other(side))
             /\ Frame({"deck", "winner", "difficulty"}) ]_vars

\* the card under the top card of the discard pile
PreTop == state.discardPile[Len(state.discardPile) - 1]

C11_Witness ==
    /\ lastOp.op = "playCard" /\ lastOp.target = "player"
    /\ lastOp.card.rank # EIGHT
    /\ Len(state.playerHand) > 0
    /\ Last(state.discardPile) = lastOp.card
    /\ PreTop.suit # lastOp.card.suit
    /\ state.currentSuit = lastOp.card.suit
    /\ state.turn = "ai" /\ state.status = "playing"

(* C12: a card is playable iff its rank is 8 or its rank is the top card's
   rank or its suit is the current suit, the top card's own suit playing no
   part; the check that enables the player's cards, the check after a draw,
   the computer's filter and the draw-pile check all compute this predicate. *)
C12_RuleEngine ==
    state.discardPile # << >> =>
        LET top == Last(state.discardPile) IN
        /\ \A card \in FullDeck :
             LET rule == \/ card.rank = "8"
                         \/ card.rank = top.rank
                         \/ card.suit = state.currentSuit
             IN /\ canPlay(card, top, state.currentSuit) = rule
                /\ aiPlayable(card, top, state.currentSuit) = rule
                /\ isPlayable(state, card) = (isPlayerTurn(state) /\ rule)
        /\ canPlayerDraw(state) =
             (/\ isPlayerTurn(state)
              /\ \A i \in DOMAIN state.playerHand :
                   ~RulePlayable(state.playerHand[i], top, state.currentSuit))
        /\ Range(playableCards(state)) =
             {c \in Range(state.aiHand) : RulePlayable(c, top, state.currentSuit)}

\* a card of the top card's suit is refused because the current suit is another
C12_Witness ==
    /\ lastOp.op = "ignoredClick"
    /\ isPlayerTurn(state)
    /\ topDiscard(state).rank = EIGHT
    /\ state.currentSuit # topDiscard(state).suit
    /\ lastOp.card.suit = topDiscard(state).suit
    /\ lastOp.card \in Range(state.playerHand)

(* C13: in status game_over exactly one of the two hands is empty and winner
   names the side that holds it; winner is set in no other status. *)
C13_WinnerInvariant ==
    /\ state.status = "game_over" =>
         /\ (state.playerHand = << >>) # (state.aiHand = << >>)
         /\ state.winner \in Sides
         /\ Hand(state, state.winner) = << >>
    /\ state.winner # "null" => state.status = "game_over"

C13_Witness ==
    /\ state.status = "game_over"
    /\ state.winner = "player"
    /\ state.playerHand = << >>
    /\ state.aiHand # << >>
    /\ lastOp.op = "ignoredDraw"

(* C14: in every status other than waiting the discard pile is non-empty and
   the current suit is set. *)
C14_TableInvariant ==
    state.status # "waiting" =>
        /\ Len(state.discardPile) > 0
        /\ state.currentSuit \in Range(SUITS)

C14_Witness ==
    /\ state.status = "choosing_suit"
    /\ Len(state.discardPile) > 1
    /\ state.currentSuit = topDiscard(state).suit
    /\ topDiscard(state).rank = EIGHT

\* positions of the hand of st that hold a playable card that is not an 8
NonEightPlayable(st) ==
    {i \in DOMAIN st.aiHand :
        /\ st.aiHand[i].rank # EIGHT
        /\ RulePlayable(st.aiHand[i], Last(st.discardPile), st.currentSuit)}

\* how many cards of the full hand of st have the suit of the card at position i
SuitCountAt(st, i) ==
    Cardinality({j \in DOMAIN st.aiHand : st.aiHand[j].suit = st.aiHand[i].suit})

\* the first position among the playable non-8 cards with the highest suit count
FirstBest(st) ==
    CHOOSE i \in NonEightPlayable(st) :
        /\ \A j \in NonEightPlayable(st) : SuitCountAt(st, j) <= SuitCountAt(st, i)
        /\ \A j \in NonEightPlayable(st) :
             SuitCountAt(st, j) = SuitCountAt(st, i) => i <= j

AllPicks == UNION {Range(Streams[k].picks) : k \in 1..NumStreams}

(* C15: at difficulty hard the computer plays, when it holds a playable card
   that is not an 8, the playable non-8 card whose suit is most frequent in
   its full hand, the first such card in hand order on ties, and otherwise an
   8; the choice depends on the hand, the top card and the current suit only,
   whatever the random source returns. *)
C15_HardPolicy ==
    [][ (PlayBy("ai") /\ state.difficulty = "hard")
        => /\ IF NonEightPlayable(state) # {}
              THEN lastOp'.card = state.aiHand[FirstBest(state)]
              ELSE lastOp'.card.rank = EIGHT /\ lastOp'.card \in Range(state.aiHand)
           /\ \A r \in AllPicks : cardToPlay(state, r) = lastOp'.card ]_vars

\* a hard play of a card while a card left in the hand was playable too and
\* has a suit as frequent as the played card's suit
C15_Witness ==
    /\ lastOp.op = "playCard" /\ lastOp.target = "ai"
    /\ state.difficulty = "hard"
    /\ lastOp.card.rank # EIGHT
    /\ PreTop.rank # EIGHT
    /\ \E i \in DOMAIN state.aiHand :
         LET c == state.aiHand[i]
             n(suit) == Cardinality({j \in DOMAIN state.aiHand : state.aiHand[j].suit = suit})
         IN /\ c.rank # EIGHT
            /\ c.suit # lastOp.card.suit
            /\ RulePlayable(c, PreTop, PreTop.suit)
            /\ n(c.suit) = n(lastOp.card.suit) + 1

\* a pending callback holds the present state, in which the computer is to move
PendingIsCurrent ==
    timer # << >> =>
        /\ timer[1] = state
        /\ state.status = "playing"
        /\ state.turn = "ai"

(* C16: a pending computer move is applied only to the state it was computed
   from and only while it is the computer's turn in status playing; a reset
   to home, a start of a new game or any other step that leaves (playing,
   computer's turn) leaves no callback pending, so the move never fires. *)
C16_Cancellation ==
    [][ /\ PendingIsCurrent
        /\ PendingIsCurrent'
        /\ lastOp'.target = "ai" =>
             /\ timer # << >>
             /\ timer[1] = state
             /\ state.status = "playing" /\ state.turn = "ai"
        /\ lastOp'.op \in {"goToHome", "initGame"} => timer' = << >>
        /\ ~(state'.status = "playing" /\ state'.turn = "ai") => timer' = << >>
      ]_vars

\* the game was reset while the computer's move on a playable card was pending
C16_Witness ==
    /\ lastOp.op = "goToHome"
    /\ state.status = "waiting"
    /\ state.turn = "ai"
    /\ timer = << >>
    /\ topDiscard(state).rank # EIGHT
    /\ Len(playableCards(state)) > 0

GameMoves == {"playCard", "drawCard", "selectSuit"}

(* C17: a reset to home sets the status to waiting and the winner to null
   and leaves deck, hands, discard pile, current suit, turn and difficulty as
   they were; in status waiting no play, draw, suit choice or computer move
   takes place, and the cards stay as they are until a start. *)
C17_ResetToHome ==
    [][ /\ lastOp'.op = "goToHome" =>
             /\ state'.status = "waiting"
             /\ state'.winner = "null"
             /\ Frame({"deck", "playerHand", "aiHand", "discardPile",
                       "currentSuit", "turn", "difficulty"})
        /\ state.status = "waiting" =>
             /\ lastOp'.op \notin GameMoves
             /\ lastOp'.target # "ai"
             /\ timer = << >>
             /\ lastOp'.op # "initGame" =>
                  /\ state'.status = "waiting"
                  /\ Frame({"deck", "playerHand", "aiHand", "discardPile",
                            "currentSuit", "turn"}) ]_vars

\* after a reset of a running game: the player, who could have drawn, clicks
\* the draw pile and nothing is drawn
C17_Witness ==
    /\ lastOp.op = "ignoredDraw"
    /\ state.status = "waiting"
    /\ state.turn = "player"
    /\ state.winner = "null"
    /\ Len(state.deck) > 0
    /\ Len(state.playerHand) > 0
    /\ \A i \in DOMAIN state.playerHand :
         ~RulePlayable(state.playerHand[i], topDiscard(state), state.currentSuit)

(* C18: the status becomes choosing_suit only from playing and only by the
   player's play of an 8, never by the computer's; out of choosing_suit the
   only move of the game is the suit choice, which leads to playing;
   game_over is entered only from playing by a play, and only a start or a
   reset leaves it or changes anything in it. *)
C18_StatusGraph ==
    [][ /\ (state'.status = "choosing_suit" /\ state.status # "choosing_suit") =>
             /\ state.status = "playing"
             /\ PlayBy("player")
             /\ lastOp'.card.rank = EIGHT
        /\ (state.status = "choosing_suit" /\ state' # state) =>
             \/ lastOp'.op = "selectSuit" /\ state'.status = "playing"
             \/ lastOp'.op = "initGame" /\ state'.status = "playing"
             \/ lastOp'.op = "goToHome" /\ state'.status = "waiting"
        /\ (state'.status = "game_over" /\ state.status # "game_over") =>
             /\ state.status = "playing"
             /\ lastOp'.op = "playCard"
        /\ (state.status = "game_over" /\ state' # state) =>
             \/ lastOp'.op = "initGame" /\ state'.status = "playing"
             \/ lastOp'.op = "goToHome" /\ state'.status = "waiting"
        /\ (state.status = "waiting" /\ state'.status # "waiting") =>
             lastOp'.op = "initGame" /\ state'.status = "playing"
        /\ PlayBy("ai") => state'.status \in {"playing", "game_over"} ]_vars

\* the computer has won and a click on a card the rule would allow does nothing
C18_Witness ==
    /\ state.status = "game_over"
    /\ state.winner = "ai"
    /\ lastOp.op = "ignoredClick"
    /\ RulePlayable(lastOp.card, topDiscard(state), state.currentSuit)
    /\ timer = << >>

(* C19: at every difficulty a card the computer plays is a card of its hand
   that is playable against the top card and the current suit of the state
   the play is applied to, and the computer draws exactly when no card of its
   hand is playable. *)
C19_AiMovesLegal ==
    [][ lastOp'.target = "ai" =>
          LET legal == {c \in Range(state.aiHand) :
                          RulePlayable(c, Last(state.discardPile), state.currentSuit)}
          IN /\ state.status = "playing" /\ state.turn = "ai"
             /\ state.difficulty \in Difficulty
             /\ lastOp'.op \in {"playCard", "drawCard"}
             /\ lastOp'.op = "playCard" => lastOp'.card \in legal
             /\ (lastOp'.op = "drawCard") = (legal = {}) ]_vars

\* an easy play of an 8 while the hand held a playable card that is not an 8
C19_Witness ==
    /\ lastOp.op = "playCard" /\ lastOp.target = "ai"
    /\ state.difficulty = "easy"
    /\ PreTop.rank # EIGHT
    /\ RulePlayable(lastOp.card, PreTop, PreTop.suit)
    /\ \E i \in DOMAIN state.aiHand :
         /\ RulePlayable(state.aiHand[i], PreTop, PreTop.suit)
         /\ state.aiHand[i].rank # EIGHT
         /\ lastOp.card.rank = EIGHT

ComputerToMove == state.status = "playing" /\ state.turn = "ai"

(* C20: when the status is playing and the turn the computer's, and the
   callback fires, the game reaches the player's turn or game_over, unless a
   start or a reset comes first (which gives the player the turn or leaves
   playing); the computer acts at most twice on the way, a draw of a playable
   card followed by a play. *)
C20_ComputerProgress ==
    /\ ComputerToMove ~> (state.turn = "player" \/ state.status # "playing")
    /\ [](aiMoves <= 2)
    /\ [](ComputerToMove => aiMoves <= 1)
    /\ []((ComputerToMove /\ aiMoves = 1) => Len(playableCards(state)) > 0)

\* the computer has drawn a playable card and played, the turn is the player's
C20_Witness ==
    /\ lastOp.op = "playCard" /\ lastOp.target = "ai"
    /\ aiMoves = 2
    /\ state.status = "playing"
    /\ state.turn = "player"

(* C22: in status playing and in status choosing_suit both hands hold at
   least one card; a hand becomes empty only in the step that sets the
   status to game_over. *)
C22_HandsNonEmpty ==
    [][ /\ state'.status \in {"playing", "choosing_suit"} =>
             /\ Len(state'.playerHand) > 0
             /\ Len(state'.aiHand) > 0
        /\ \A side \in Sides :
             (Hand(state, side) # << >> /\ Hand(state', side) = << >>) =>
                 /\ state'.status = "game_over"
                 /\ state.status = "playing"
                 /\ PlayBy(side) ]_vars

\* the computer has played its last card but one and the game goes on
C22_Witness ==
    /\ lastOp.op = "playCard" /\ lastOp.target = "ai"
    /\ state.status = "playing"
    /\ Len(state.aiHand) = 1
    /\ Len(state.playerHand) > 0

(* C23: in status playing, when the top card of the discard pile is not an
   8, the current suit is the suit of that card; the current suit differs
   from the top card's suit only while the top card is an 8. *)
C23_SuitFollowsTop ==
    state.status = "playing" =>
        /\ topDiscard(state).rank # EIGHT => state.currentSuit = topDiscard(state).suit
        /\ state.currentSuit # topDiscard(state).suit => topDiscard(state).rank = EIGHT

\* a card of the suit chosen for an 8 has been played on that 8
C23_Witness ==
    /\ lastOp.op = "playCard"
    /\ state.status = "playing"
    /\ topDiscard(state) = lastOp.card
    /\ lastOp.card.rank # EIGHT
    /\ PreTop.rank = EIGHT
    /\ PreTop.suit # lastOp.card.suit
    /\ state.currentSuit = lastOp.card.suit

\* the number of 8s at the end of seq
TrailingEights(seq) ==
    CHOOSE n \in 0..Len(seq) :
        /\ \A i \in (Len(seq) - n + 1)..Len(seq) : seq[i].rank = EIGHT
        /\ n < Len(seq) => seq[Len(seq) - n].rank # EIGHT

(* C21: for every ordering of the deck the choice of the first discard ends:
   with r 8s at the tail of the 36 cards left after the hands are dealt, r is
   at most 4, the r 8s are put one by one at the head of the deck (where they
   end in the order they had), the card before them becomes the discard, and the 52 cards are all still there,
   none twice. *)
C21_InitialDiscardLoop ==
    [][ (lastOp.op = "shuffle" /\ lastOp'.op = "initGame") =>
        LET undealt == SubSeq(state.deck, 2 * HandSize + 1, Len(state.deck))
            r == TrailingEights(undealt)
            n == Len(undealt)
        IN /\ r <= 4
           /\ r < n
           /\ state'.discardPile = <<undealt[n - r]>>
           /\ state'.discardPile[1].rank # EIGHT
           /\ state'.deck = SubSeq(undealt, n - r + 1, n) \o SubSeq(undealt, 1, n - r - 1)
           /\ Len(AllCards(state')) = Len(state.deck)
           /\ Range(AllCards(state')) = Range(state.deck)
           /\ Cardinality(Range(AllCards(state'))) = 52 ]_vars

\* all four 8s were at the tail and now lead the deck
C21_Witness ==
    /\ lastOp.op = "initGame"
    /\ Len(state.deck) = 35
    /\ \A i \in 1..4 : state.deck[i].rank = EIGHT
    /\ state.discardPile = <<Last(NonEights)>>
    /\ \A i \in DOMAIN state.playerHand : state.playerHand[i].rank # EIGHT

============================================================================
